---- MODULE Spec2Model ----
(***************************************************************************)
(* Narrative decomposition pipeline of src/main.py: EmotionType, Entity,   *)
(* Scene and the three stages of TextProcesor (segment_scenes,             *)
(* extract_entities, detect_actions).                                      *)
(*                                                                         *)
(* Text is a sequence of one-character strings, so that lower(), the       *)
(* substring test and " ".join are computed and not assumed.  Opaque       *)
(* provider labels (entity labels, part-of-speech and dependency tags,     *)
(* entity names) are plain strings.  A float is held in tenths (1.0 is 10, *)
(* 1.5 is 15).  An Optional value is a sequence: <<>> is None and <<v>> is *)
(* the value v.                                                            *)
(***************************************************************************)
EXTENDS Integers, Sequences, FiniteSets, TLC

VARIABLES
  op,             \* the operation under call
  pc,             \* position of the call
  text,           \* the text argument of a stage
  doc,            \* what self.nlp(text) gives for it
  emotion,        \* the argument of EmotionType.from_string
  obj,            \* the Entity or Scene that to_dict is called on
  scenes, current_scene, sent_i,   \* locals of segment_scenes
  exc,            \* the exception raised inside the try block, if any
  outcome,        \* "running", "returned" or "ProcessingError"
  ret,            \* the value returned, None until then
  ret2,           \* the value returned by the second call of from_string
  tasks           \* build_scenes: the per-scene extraction tasks

vars == <<op, pc, text, doc, emotion, obj, scenes, current_scene, sent_i,
          exc, outcome, ret, ret2, tasks>>

\* ------------------------------------------------------------------ bounds
MaxSents == 3
MaxEnts == 1
MaxTokens == 2
MaxCasePos == 3
MaxBuildSents == 2

\* ----------------------------------------------------------------- strings
None == <<>>
Some(v) == <<v>>

UpperAlpha == <<"A","B","C","D","E","F","G","H","I","J","K","L","M",
                "N","O","P","Q","R","S","T","U","V","W","X","Y","Z">>
LowerAlpha == <<"a","b","c","d","e","f","g","h","i","j","k","l","m",
                "n","o","p","q","r","s","t","u","v","w","x","y","z">>

LowerChar(c) ==
  IF \E k \in 1..26 : UpperAlpha[k] = c
  THEN LowerAlpha[CHOOSE k \in 1..26 : UpperAlpha[k] = c]
  ELSE c

UpperChar(c) ==
  IF \E k \in 1..26 : LowerAlpha[k] = c
  THEN UpperAlpha[CHOOSE k \in 1..26 : LowerAlpha[k] = c]
  ELSE c

\* str.lower()
Lower(s) == [k \in 1..Len(s) |-> LowerChar(s[k])]

\* Python's `m in s` on strings
Contains(s, m) ==
  \E k \in 0..(Len(s) - Len(m)) : SubSeq(s, k + 1, k + Len(m)) = m

RECURSIVE JoinEmpty(_)
JoinEmpty(parts) ==
  IF parts = <<>> THEN <<>> ELSE Head(parts) \o JoinEmpty(Tail(parts))

\* " ".join(parts)
RECURSIVE JoinSpace(_)
JoinSpace(parts) ==
  IF parts = <<>> THEN <<>>
  ELSE IF Len(parts) = 1 THEN parts[1]
  ELSE parts[1] \o <<" ">> \o JoinSpace(Tail(parts))

\* all sequences over S of length at most n
SeqUpTo(S, n) == UNION {[1..k -> S] : k \in 0..n}

\* ------------------------------------------------------------ segmentation
Markers == << <<"l","a","t","e","r">>,
              <<"m","e","a","n","w","h","i","l","e">>,
              <<"a","f","t","e","r">>,
              <<"b","e","f","o","r","e">>,
              <<"n","e","x","t">>,
              <<"s","u","d","d","e","n","l","y">> >>

HasMarkerCaseSensitive(sent_text) ==
  \E k \in 1..Len(Markers) : Contains(sent_text, Markers[k])

\* any(marker in sent.text.lower() for marker in [...])
HasMarker(sent_text) ==
  \E k \in 1..Len(Markers) : Contains(Lower(sent_text), Markers[k])

\* one iteration of `for sent in doc.sents`
LoopBody(acc, sent_text) ==
  LET cur == Append(acc.current_scene, sent_text)
  IN  IF HasMarker(sent_text)
      THEN [scenes |-> Append(acc.scenes, JoinSpace(cur)),
            current_scene |-> <<>>]
      ELSE [scenes |-> acc.scenes, current_scene |-> cur]

FlushNever(acc) == acc.scenes

\* if current_scene: scenes.append(" ".join(current_scene))
Flush(acc) ==
  IF acc.current_scene # <<>>
  THEN Append(acc.scenes, JoinSpace(acc.current_scene))
  ELSE acc.scenes

SegResultNoFallback(scs, txt) == scs

SegResultWholeText(scs, txt) == IF Len(scs) > 1 THEN scs ELSE <<txt>>

\* return scenes if scenes else [text]
SegResult(scs, txt) == IF scs # <<>> THEN scs ELSE <<txt>>

SegmentExceptReturnsPartial(e, partial) ==
  [outcome |-> "returned", ret |-> Some(partial), exc |-> e]

\* except Exception: raise ProcessingError("Failed to segment scenes")
SegmentExcept(e, partial) ==
  [outcome |-> "ProcessingError", ret |-> None, exc |-> e]

\* The provider's document for a text.  Each sentence span carries its text
\* (Span.text) and the trailing whitespace of its last token, which
\* Span.text leaves out; the text the document was made from is the
\* concatenation of both, over all sentences.
SentTexts == { <<"H","i",".">>,
               <<"L","a","t","e","r","!">>,
               <<"r","a","f","t","e","r">>,
               <<"G","o","\n">> }
TrailingWs == { <<>>, <<" ">> }
SentSpans == [text : SentTexts, ws : TrailingWs]

DocText(sents) ==
  JoinEmpty([k \in 1..Len(sents) |-> sents[k].text \o sents[k].ws])

SentTextsOf(sents) == [k \in 1..Len(sents) |-> sents[k].text]

RECURSIVE SegmentFold(_, _)
SegmentFold(acc, sent_texts) ==
  IF sent_texts = <<>> THEN acc
  ELSE SegmentFold(LoopBody(acc, Head(sent_texts)), Tail(sent_texts))

\* segment_scenes as one call
segment_scenes(txt, d) ==
  IF d.raises
  THEN SegmentExcept("ProviderError", <<>>)
  ELSE [outcome |-> "returned",
        ret |-> Some(SegResult(
                  Flush(SegmentFold([scenes |-> <<>>, current_scene |-> <<>>],
                                    SentTextsOf(d.sents))), txt)),
        exc |-> "None"]

NoDoc == [sents |-> <<>>, ents |-> <<>>, tokens |-> <<>>, raises |-> FALSE]

SegmentDocs ==
  {[sents |-> s, ents |-> <<>>, tokens |-> <<>>, raises |-> r] :
     s \in SeqUpTo(SentSpans, MaxSents), r \in BOOLEAN}

InitSegment ==
  /\ op = "segment_scenes"
  /\ doc \in SegmentDocs
  /\ text = DocText(doc.sents)
  /\ emotion = <<>>
  /\ obj = None
  /\ tasks = <<>>

\* doc = self.nlp(text); scenes = []; current_scene = []
SegmentParse ==
  /\ op = "segment_scenes" /\ pc = "call"
  /\ IF doc.raises
     THEN /\ exc' = "ProviderError"
          /\ pc' = "except"
     ELSE /\ exc' = exc
          /\ pc' = "loop"
  /\ scenes' = <<>>
  /\ current_scene' = <<>>
  /\ sent_i' = 1
  /\ UNCHANGED <<op, text, doc, emotion, obj, outcome, ret, ret2, tasks>>

SegmentLoop ==
  /\ op = "segment_scenes" /\ pc = "loop"
  /\ sent_i <= Len(doc.sents)
  /\ LET acc == LoopBody([scenes |-> scenes, current_scene |-> current_scene],
                         doc.sents[sent_i].text)
     IN  /\ scenes' = acc.scenes
         /\ current_scene' = acc.current_scene
  /\ sent_i' = sent_i + 1
  /\ UNCHANGED <<op, pc, text, doc, emotion, obj, exc, outcome, ret, ret2, tasks>>

SegmentReturn ==
  /\ op = "segment_scenes" /\ pc = "loop"
  /\ sent_i > Len(doc.sents)
  /\ scenes' = Flush([scenes |-> scenes, current_scene |-> current_scene])
  /\ ret' = Some(SegResult(scenes', text))
  /\ outcome' = "returned"
  /\ pc' = "done"
  /\ UNCHANGED <<op, text, doc, emotion, obj, current_scene, sent_i, exc, ret2,
                 tasks>>

SegmentRaise ==
  /\ op = "segment_scenes" /\ pc = "except"
  /\ LET h == SegmentExcept(exc, scenes)
     IN  /\ outcome' = h.outcome
         /\ ret' = h.ret
  /\ pc' = "done"
  /\ UNCHANGED <<op, text, doc, emotion, obj, scenes, current_scene, sent_i,
                 exc, ret2, tasks>>

\* ------------------------------------------------------------- EmotionType
EmotionMembers == <<"HAPPY", "SAD", "NEUTRAL", "ANGRY", "SURPRISE", "FEAR",
                    "DISGUST", "CONFUSED", "OTHER">>

EmotionValues ==
  << <<"h","a","p","p","y">>,
     <<"s","a","d">>,
     <<"n","e","u","t","r","a","l">>,
     <<"a","n","g","r","y">>,
     <<"s","u","r","p","r","i","s","e">>,
     <<"f","e","a","r">>,
     <<"d","i","s","g","u","s","t">>,
     <<"c","o","n","f","u","s","e","d">>,
     <<"o","t","h","e","r">> >>

\* member.value
EmotionValue(m) ==
  EmotionValues[CHOOSE k \in 1..Len(EmotionMembers) : EmotionMembers[k] = m]

\* cls(value): the member with that value, ValueError when there is none
EnumByValue(v) ==
  IF \E k \in 1..Len(EmotionMembers) : EmotionValue(EmotionMembers[k]) = v
  THEN [exc |-> "None",
        member |-> EmotionMembers[CHOOSE k \in 1..Len(EmotionMembers) :
                                    EmotionValue(EmotionMembers[k]) = v]]
  ELSE [exc |-> "ValueError", member |-> "none"]

from_string_case_sensitive(e) ==
  LET r == EnumByValue(e)
  IN  IF r.exc = "ValueError" THEN "OTHER" ELSE r.member

\* try: return cls(emotion.lower())  except ValueError: return cls.OTHER
from_string(e) ==
  LET r == EnumByValue(Lower(e))
  IN  IF r.exc = "ValueError" THEN "OTHER" ELSE r.member

EmotionBases ==
  {EmotionValue(EmotionMembers[k]) : k \in 1..Len(EmotionMembers)}
  \cup { <<>>, <<"j","o","y">>, <<"h","a","p","p">>,
         <<"s","a","d","l","y">>, <<"s","a","d"," ">> }

ApplyCase(base, mask) ==
  [k \in 1..Len(base) |-> IF k \in mask THEN UpperChar(base[k]) ELSE base[k]]

InitFromString ==
  /\ op = "from_string"
  /\ emotion \in {ApplyCase(b, m) :
                    b \in EmotionBases, m \in SUBSET (1..MaxCasePos)}
  /\ text = <<>>
  /\ doc = NoDoc
  /\ obj = None
  /\ tasks = <<>>

FromString ==
  /\ op = "from_string" /\ pc = "call"
  /\ ret' = Some(from_string(emotion))
  /\ outcome' = "returned"
  /\ pc' = "again"
  /\ UNCHANGED <<op, text, doc, emotion, obj, scenes, current_scene, sent_i,
                 exc, ret2, tasks>>

\* the mapping applied once more, to the value of the member it gave
FromStringAgain ==
  /\ op = "from_string" /\ pc = "again"
  /\ ret2' = Some(from_string(EmotionValue(ret[1])))
  /\ pc' = "done"
  /\ UNCHANGED <<op, text, doc, emotion, obj, scenes, current_scene, sent_i,
                 exc, outcome, ret, tasks>>

\* ------------------------------------------------------------------ Entity
EntityFields == <<"name", "type", "attributes", "position", "importanc">>
EntityRequired == {"name", "type", "attributes"}
EntityDefault(f) == IF f = "position" THEN None ELSE 10

FieldSet(fields) == {fields[k] : k \in 1..Len(fields)}
FieldIndex(fields, f) == CHOOSE k \in 1..Len(fields) : fields[k] = f

\* the generated __init__ of the dataclass: an object is the tuple of its
\* field values, in field order
EntityInit(kwargs) ==
  IF /\ DOMAIN kwargs \subseteq FieldSet(EntityFields)
     /\ EntityRequired \subseteq DOMAIN kwargs
  THEN [exc |-> "None",
        obj |-> [k \in 1..Len(EntityFields) |->
                   IF EntityFields[k] \in DOMAIN kwargs
                   THEN kwargs[EntityFields[k]]
                   ELSE EntityDefault(EntityFields[k])]]
  ELSE [exc |-> "TypeError", obj |-> None]

\* Entity.to_dict: asdict(self)
EntityToDict(e) ==
  [f \in FieldSet(EntityFields) |-> e[FieldIndex(EntityFields, f)]]

\* ------------------------------------------------------------------- Scene
SceneFields == <<"id", "text", "entities", "mood", "actions", "layout",
                 "image_path">>

SceneAttr(s, f) == s[FieldIndex(SceneFields, f)]

SceneInit(id, txt, ents, mood, acts) ==
  <<id, txt, ents, mood, acts, None, None>>

\* Scene.to_dict
SceneToDict(s) ==
  [id         |-> SceneAttr(s, "id"),
   text       |-> SceneAttr(s, "text"),
   entities   |-> [k \in 1..Len(SceneAttr(s, "entities")) |->
                     EntityToDict(SceneAttr(s, "entities")[k])],
   mood       |-> EmotionValue(SceneAttr(s, "mood")),
   actions    |-> SceneAttr(s, "actions"),
   layout     |-> SceneAttr(s, "layout"),
   image_path |-> SceneAttr(s, "image_path")]

EntityLabels == {"PERSON", "ORG", "GPE"}
Descriptions == { <<>>, <<"b","i","g">> }
Positions == { None, Some([x |-> 1, y |-> 2]) }

EntityObjects ==
  {EntityInit([name |-> n, type |-> l,
               attributes |-> [description |-> d, label |-> l],
               position |-> p, importanc |-> w]).obj :
     n \in {"Maria", "Acme"}, l \in EntityLabels, d \in Descriptions,
     p \in Positions, w \in {10, 15}}
  \cup
  {EntityInit([name |-> n, type |-> l,
               attributes |-> [description |-> <<>>, label |-> l]]).obj :
     n \in {"Maria", "Acme"}, l \in EntityLabels}

SceneEntities ==
  {EntityInit([name |-> "Maria", type |-> l,
               attributes |-> [description |-> <<>>, label |-> l]]).obj :
     l \in {"PERSON", "GPE"}}

SceneObjects ==
  {SceneInit(id, t, es, m, a) :
     id \in 0..1, t \in SentTexts, es \in SeqUpTo(SceneEntities, 2),
     m \in {"HAPPY", "SAD", "OTHER"},
     a \in { <<>>, << <<"r","a","n">> >> }}

InitToDict ==
  /\ \/ op = "Entity.to_dict" /\ obj \in EntityObjects
     \/ op = "Scene.to_dict" /\ obj \in SceneObjects
  /\ text = <<>>
  /\ doc = NoDoc
  /\ emotion = <<>>
  /\ tasks = <<>>

EntityToDictCall ==
  /\ op = "Entity.to_dict" /\ pc = "call"
  /\ ret' = Some(EntityToDict(obj))
  /\ outcome' = "returned"
  /\ pc' = "done"
  /\ UNCHANGED <<op, text, doc, emotion, obj, scenes, current_scene, sent_i,
                 exc, ret2, tasks>>

SceneToDictCall ==
  /\ op = "Scene.to_dict" /\ pc = "call"
  /\ ret' = Some(SceneToDict(obj))
  /\ outcome' = "returned"
  /\ pc' = "done"
  /\ UNCHANGED <<op, text, doc, emotion, obj, scenes, current_scene, sent_i,
                 exc, ret2, tasks>>

\* -------------------------------------------------------- extract_entities
\* A token of the document: its text, part of speech, dependency relation,
\* the index of its head token and (detect_actions only) the verb phrase
\* anchored at it.  An entity span: its text, label and the index of its
\* root token.
Token(t, p, d, h, vp) ==
  [text |-> t, pos_ |-> p, dep_ |-> d, head |-> h, phrase |-> vp]

EntityTokens ==
  {Token(<<"b","i","g">>, "ADJ", "amod", h, <<>>) : h \in 1..MaxTokens}
  \cup {Token(<<"v","e","r","y">>, "ADV", "advmod", h, <<>>) :
          h \in 1..MaxTokens}
  \cup {Token(<<"d","o","g">>, "NOUN", "nsubj", h, <<>>) : h \in 1..MaxTokens}

EntitySpans == [text : {"Maria"}, label_ : EntityLabels, root : 1..MaxTokens]

EntityDocs ==
  {[sents |-> <<>>, ents |-> e, tokens |-> t, raises |-> r] :
     t \in {u \in SeqUpTo(EntityTokens, MaxTokens) :
              \A k \in 1..Len(u) : u[k].head <= Len(u)},
     e \in SeqUpTo(EntitySpans, MaxEnts),
     r \in BOOLEAN}

\* _get_entity_description
GetEntityDescription(ent, d) ==
  LET IsTerm(k) == /\ d.tokens[k].head = ent.root
                   /\ d.tokens[k].dep_ \in {"amod", "advmod"}
      Picked == SelectSeq([k \in 1..Len(d.tokens) |-> k], IsTerm)
      description_terms == [j \in 1..Len(Picked) |-> d.tokens[Picked[j]].text]
  IN  IF description_terms # <<>> THEN JoinSpace(description_terms) ELSE <<>>

\* importance = 1.0; if ent.label_ in ["PERSON", "ORG"]: importance *= 1.5
Importance(label) ==
  IF label \in {"PERSON", "ORG"} THEN (10 * 15) \div 10 ELSE 10

\* the body of `for ent in doc.ents`; an exception ends the loop
EntityStep(acc, ent, d) ==
  IF acc.exc # "None" THEN acc
  ELSE LET importance == Importance(ent.label_)
           attributes == [description |-> GetEntityDescription(ent, d),
                          label |-> ent.label_]
           made == EntityInit([name |-> ent.text, type |-> ent.label_,
                               attributes |-> attributes,
                               importance |-> importance])
       IN  IF made.exc # "None"
           THEN [exc |-> made.exc, list |-> acc.list]
           ELSE [exc |-> "None", list |-> Append(acc.list, made.obj)]

RECURSIVE EntitiesFold(_, _, _)
EntitiesFold(acc, ents, d) ==
  IF ents = <<>> THEN acc
  ELSE EntitiesFold(EntityStep(acc, Head(ents), d), Tail(ents), d)

EntitiesExceptReturnsPartial(e, partial) ==
  [outcome |-> "returned", ret |-> Some(partial), exc |-> e]

\* except Exception: raise ProcessingError("Entity extraction failed: ...")
EntitiesExcept(e, partial) ==
  [outcome |-> "ProcessingError", ret |-> None, exc |-> e]

extract_entities(d) ==
  IF d.raises
  THEN EntitiesExcept("ProviderError", <<>>)
  ELSE LET b == EntitiesFold([exc |-> "None", list |-> <<>>], d.ents, d)
       IN  IF b.exc # "None"
           THEN EntitiesExcept(b.exc, b.list)
           ELSE [outcome |-> "returned", ret |-> Some(b.list),
                 exc |-> "None"]

InitEntities ==
  /\ op = "extract_entities"
  /\ doc \in {d \in EntityDocs :
                \A k \in 1..Len(d.ents) : d.ents[k].root <= Len(d.tokens)}
  /\ text = <<>>
  /\ emotion = <<>>
  /\ obj = None
  /\ tasks = <<>>

ExtractEntities ==
  /\ op = "extract_entities" /\ pc = "call"
  /\ LET r == extract_entities(doc)
     IN  /\ outcome' = r.outcome
         /\ ret' = r.ret
         /\ exc' = r.exc
  /\ pc' = "done"
  /\ UNCHANGED <<op, text, doc, emotion, obj, scenes, current_scene, sent_i,
                 ret2, tasks>>

\* ---------------------------------------------------------- detect_actions
\* what the class body of TextProcesor defines, and what __init__ sets
TextProcesorAttrs ==
  {"__init__", "segment_scenes", "extract_entities",
   "_get_entity_description", "detect_actions",
   "nlp", "tokenizer", "emotion_model"}

ActionTokens ==
  {Token(<<"r","a","n">>, p, d, 1, vp) :
     p \in {"VERB", "NOUN"}, d \in {"ROOT", "xcomp", "nsubj"},
     vp \in { <<>>, <<"r","a","n">> }}

ActionDocs ==
  {[sents |-> <<>>, ents |-> <<>>, tokens |-> t, raises |-> r] :
     t \in SeqUpTo(ActionTokens, MaxTokens), r \in BOOLEAN}

\* token.pos_ == "VERB" and token.dep_ in ["ROOT", "xcomp"]
IsActionVerb(token) ==
  token.pos_ = "VERB" /\ token.dep_ \in {"ROOT", "xcomp"}

\* the body of `for token in doc`: self._extract_verb_phrase is looked up on
\* the instance, and the lookup of a name the class does not define raises
\* AttributeError
ActionStep(acc, token) ==
  IF acc.exc # "None" THEN acc
  ELSE IF IsActionVerb(token)
       THEN IF "_extract_verb_phrase" \notin TextProcesorAttrs
            THEN [exc |-> "AttributeError", list |-> acc.list]
            ELSE LET verb_phrase == token.phrase
                 IN  IF verb_phrase # <<>>
                     THEN [exc |-> "None",
                           list |-> Append(acc.list, verb_phrase)]
                     ELSE acc
       ELSE acc

RECURSIVE ActionsFold(_, _)
ActionsFold(acc, tokens) ==
  IF tokens = <<>> THEN acc
  ELSE ActionsFold(ActionStep(acc, Head(tokens)), Tail(tokens))

\* except Exception: raise ProcessingError("Action detection failed: ...")
ActionsExcept(e, partial) ==
  [outcome |-> "ProcessingError", ret |-> None, exc |-> e]

detect_actions(d) ==
  IF d.raises
  THEN ActionsExcept("ProviderError", <<>>)
  ELSE LET b == ActionsFold([exc |-> "None", list |-> <<>>], d.tokens)
       IN  IF b.exc # "None"
           THEN ActionsExcept(b.exc, b.list)
           ELSE [outcome |-> "returned", ret |-> Some(b.list),
                 exc |-> "None"]

InitActions ==
  /\ op = "detect_actions"
  /\ doc \in ActionDocs
  /\ text = <<>>
  /\ emotion = <<>>
  /\ obj = None
  /\ tasks = <<>>

DetectActions ==
  /\ op = "detect_actions" /\ pc = "call"
  /\ LET r == detect_actions(doc)
     IN  /\ outcome' = r.outcome
         /\ ret' = r.ret
         /\ exc' = r.exc
  /\ pc' = "done"
  /\ UNCHANGED <<op, text, doc, emotion, obj, scenes, current_scene, sent_i,
                 ret2, tasks>>

\* ------------------------------------------------------------ build_scenes
\* build_scenes and classify_mood are described by the design (sections 4.4,
\* 4.5 and 5) and are not defined by src/main.py: segmentation runs once,
\* the three extractions of every scene run as independent tasks that may
\* complete in any order, and the call joins them all before it assembles
\* the scenes in segmentation order or fails.
classify_mood(c) ==
  IF c.raises
  THEN [outcome |-> "ProcessingError", ret |-> None, exc |-> "ProviderError"]
  ELSE [outcome |-> "returned", ret |-> Some(from_string(c.label)),
        exc |-> "None"]

Pending == [outcome |-> "running", ret |-> None, exc |-> "None"]

BuildSentSpans ==
  [text : { <<"H","i",".">>, <<"L","a","t","e","r","!">> }, ws : { <<" ">> }]

BuildDocs ==
  {[sents |-> s, ents |-> <<>>, tokens |-> <<>>, raises |-> r] :
     s \in SeqUpTo(BuildSentSpans, MaxBuildSents), r \in BOOLEAN}

\* what the provider may report for one scene
BuildEntityDocs ==
  {[sents |-> <<>>, ents |-> e, raises |-> FALSE,
    tokens |-> <<Token(<<"b","i","g">>, "ADJ", "amod", 1, <<>>)>>] :
     e \in { <<>>, <<[text |-> "Maria", label_ |-> "PERSON", root |-> 1]>> }}

BuildActionDocs ==
  {[sents |-> <<>>, ents |-> <<>>, tokens |-> t, raises |-> FALSE] :
     t \in { <<>>,
             <<Token(<<"r","a","n">>, "VERB", "ROOT", 1, <<"r","a","n">>)>> }}

BuildMoods ==
  [label : { <<"S","A","D">>, <<"j","o","y">> }, raises : {FALSE}]
  \cup {[label |-> <<>>, raises |-> TRUE]}

InitBuild ==
  /\ op = "build_scenes"
  /\ doc \in BuildDocs
  /\ text = DocText(doc.sents)
  /\ emotion = <<>>
  /\ obj = None
  /\ tasks = <<>>

BuildSegment ==
  /\ op = "build_scenes" /\ pc = "call"
  /\ LET r == segment_scenes(text, doc)
     IN  IF r.outcome = "ProcessingError"
         THEN /\ outcome' = "ProcessingError"
              /\ exc' = r.exc
              /\ pc' = "done"
              /\ UNCHANGED <<scenes, tasks>>
         ELSE /\ scenes' = r.ret[1]
              /\ tasks' = [k \in 1..Len(r.ret[1]) |->
                             [entities |-> Pending, actions |-> Pending,
                              mood |-> Pending]]
              /\ pc' = "fork"
              /\ UNCHANGED <<outcome, exc>>
  /\ UNCHANGED <<op, text, doc, emotion, obj, current_scene, sent_i, ret,
                 ret2>>

BuildEntitiesTask ==
  /\ op = "build_scenes" /\ pc = "fork"
  /\ \E k \in 1..Len(tasks) :
        /\ tasks[k].entities.outcome = "running"
        /\ \E d \in BuildEntityDocs :
              tasks' = [tasks EXCEPT ![k].entities = extract_entities(d)]
  /\ UNCHANGED <<op, pc, text, doc, emotion, obj, scenes, current_scene,
                 sent_i, exc, outcome, ret, ret2>>

BuildActionsTask ==
  /\ op = "build_scenes" /\ pc = "fork"
  /\ \E k \in 1..Len(tasks) :
        /\ tasks[k].actions.outcome = "running"
        /\ \E d \in BuildActionDocs :
              tasks' = [tasks EXCEPT ![k].actions = detect_actions(d)]
  /\ UNCHANGED <<op, pc, text, doc, emotion, obj, scenes, current_scene,
                 sent_i, exc, outcome, ret, ret2>>

BuildMoodTask ==
  /\ op = "build_scenes" /\ pc = "fork"
  /\ \E k \in 1..Len(tasks) :
        /\ tasks[k].mood.outcome = "running"
        /\ \E c \in BuildMoods :
              tasks' = [tasks EXCEPT ![k].mood = classify_mood(c)]
  /\ UNCHANGED <<op, pc, text, doc, emotion, obj, scenes, current_scene,
                 sent_i, exc, outcome, ret, ret2>>

TaskOutcomes(k) ==
  {tasks[k].entities.outcome, tasks[k].actions.outcome, tasks[k].mood.outcome}

BuildJoin ==
  /\ op = "build_scenes" /\ pc = "fork"
  /\ \A k \in 1..Len(tasks) : "running" \notin TaskOutcomes(k)
  /\ IF \E k \in 1..Len(tasks) : "ProcessingError" \in TaskOutcomes(k)
     THEN /\ outcome' = "ProcessingError"
          /\ exc' = "ProcessingError"
          /\ ret' = None
     ELSE /\ outcome' = "returned"
          /\ exc' = exc
          /\ ret' = Some([k \in 1..Len(tasks) |->
                            SceneInit(k - 1, scenes[k],
                                      tasks[k].entities.ret[1],
                                      tasks[k].mood.ret[1],
                                      tasks[k].actions.ret[1])])
  /\ pc' = "done"
  /\ UNCHANGED <<op, text, doc, emotion, obj, scenes, current_scene, sent_i,
                 ret2, tasks>>

\* ----------------------------------------------------------- specification
InitCommon ==
  /\ pc = "call"
  /\ scenes = <<>>
  /\ current_scene = <<>>
  /\ sent_i = 1
  /\ exc = "None"
  /\ outcome = "running"
  /\ ret = None
  /\ ret2 = None

Init ==
  /\ InitCommon
  /\ \/ InitSegment
     \/ InitFromString
     \/ InitToDict
     \/ InitEntities
     \/ InitActions
     \/ InitBuild

Next ==
  \/ SegmentParse \/ SegmentLoop \/ SegmentReturn \/ SegmentRaise
  \/ FromString \/ FromStringAgain
  \/ EntityToDictCall \/ SceneToDictCall
  \/ ExtractEntities \/ DetectActions
  \/ BuildSegment \/ BuildEntitiesTask \/ BuildActionsTask \/ BuildMoodTask
  \/ BuildJoin

Spec == Init /\ [][Next]_vars

\* ------------------------------------------------------------------ claims
Whitespace == {" ", "\n", "\t", "\r"}
IsNotWs(c) == c \notin Whitespace
StripWs(s) == SelectSeq(s, IsNotWs)

SegReturned == op = "segment_scenes" /\ pc = "done" /\ outcome = "returned"

NoMarkerAnywhere ==
  \A k \in 1..Len(doc.sents) :
     \A m \in 1..Len(Markers) :
        ~Contains(Lower(doc.sents[k].text), Markers[m])

\* C1: the scene texts returned by segment_scenes, concatenated in order,
\* reproduce the input text once whitespace is left out of both, and joined
\* by single spaces they are the provider's sentences joined by single
\* spaces: no sentence is dropped, duplicated or reordered.
C1_PartitionCovering ==
  SegReturned =>
     /\ StripWs(JoinEmpty(ret[1])) = StripWs(text)
     /\ Len(doc.sents) > 0 =>
           JoinSpace(ret[1]) = JoinSpace(SentTextsOf(doc.sents))

C1_Witness ==
  /\ SegReturned
  /\ Len(doc.sents) = 3
  /\ Len(ret[1]) = 2
  /\ ret[1][1] # ret[1][2]

\* C2 as stated: with no marker in any sentence, segment_scenes returns
\* exactly one scene and that scene is the input text unmodified.
C2_Original ==
  (SegReturned /\ NoMarkerAnywhere) => ret[1] = <<text>>

\* C2 (amended): with no marker in any sentence, segment_scenes returns
\* exactly one scene: the provider's sentence texts joined by single spaces
\* when there is at least one sentence, and the input text itself when the
\* provider reports none.
C2_SingleJoinedScene ==
  (SegReturned /\ NoMarkerAnywhere) =>
     /\ Len(ret[1]) = 1
     /\ ret[1][1] = IF Len(doc.sents) = 0 THEN text
                    ELSE JoinSpace(SentTextsOf(doc.sents))

C2_Witness ==
  /\ SegReturned /\ NoMarkerAnywhere
  /\ Len(doc.sents) >= 2
  /\ ret[1] # <<text>>

\* C3 as stated: the returned sequence is non-empty for non-empty input and
\* every element of it is a non-empty string, for every input text, the
\* empty text included.
C3_Original ==
  SegReturned =>
     /\ (text # <<>> => ret[1] # <<>>)
     /\ \A k \in 1..Len(ret[1]) : ret[1][k] # <<>>

\* C3 (amended): the returned sequence is never empty, and every element of
\* it is a non-empty string whenever the input text is non-empty; for the
\* empty text the result is the single empty string.
C3_NonEmptyScenes ==
  SegReturned =>
     /\ Len(ret[1]) >= 1
     /\ (text # <<>> => \A k \in 1..Len(ret[1]) : ret[1][k] # <<>>)
     /\ (text = <<>> => ret[1] = << <<>> >>)

C3_Witness ==
  /\ SegReturned
  /\ text # <<>>
  /\ Len(ret[1]) = 3
  /\ \A k \in 1..3 : ret[1][k] # <<>>

\* The sentences after which a scene is closed: every marker sentence, and
\* the last sentence when it has no marker.
MarkerSents ==
  {k \in 1..Len(doc.sents) :
     \E m \in 1..Len(Markers) :
        Contains(Lower(doc.sents[k].text), Markers[m])}
SceneEnds ==
  MarkerSents \cup (IF Len(doc.sents) > 0 THEN {Len(doc.sents)} ELSE {})
SceneStart(b) ==
  IF \E e \in SceneEnds : e < b
  THEN 1 + CHOOSE e \in SceneEnds :
              e < b /\ \A f \in SceneEnds : f < b => f <= e
  ELSE 1
SceneNo(b) == Cardinality({e \in SceneEnds : e <= b})

\* C10: a scene is closed exactly after each marker sentence.  While the
\* loop runs the buffer holds no marker sentence and one scene has been
\* closed per marker sentence consumed; on return the j-th scene is the
\* single-space join of the sentences from just after the previous marker
\* sentence up to the j-th closing sentence, so every scene but possibly the
\* last ends with a marker sentence, no other sentence of a scene has a
\* marker, and the number of scenes is the number of marker sentences, plus
\* one when the final sentence has no marker.
C10_ClosedAtMarkers ==
  /\ (op = "segment_scenes" /\ pc = "loop") =>
        /\ \A k \in 1..Len(current_scene) :
              \A m \in 1..Len(Markers) :
                 ~Contains(Lower(current_scene[k]), Markers[m])
        /\ Len(scenes) = Cardinality({k \in MarkerSents : k < sent_i})
  /\ (SegReturned /\ Len(doc.sents) > 0) =>
        /\ Len(ret[1]) = Cardinality(SceneEnds)
        /\ Len(ret[1]) = Cardinality(MarkerSents)
                         + (IF Len(doc.sents) \in MarkerSents THEN 0 ELSE 1)
        /\ \A b \in SceneEnds :
              ret[1][SceneNo(b)] =
                 JoinSpace(SubSeq(SentTextsOf(doc.sents), SceneStart(b), b))

C10_Witness ==
  /\ SegReturned
  /\ Len(doc.sents) = 3
  /\ MarkerSents = {1, 2}
  /\ Len(ret[1]) = 3

FromStringCalled == op = "from_string" /\ pc \in {"again", "done"}

\* C4: from_string is total and case-insensitive on strings: it always
\* gives a member; the member whose value is the lowercased argument when
\* there is one, and OTHER otherwise; any upper-casing of a member's value
\* gives that member; and applying it to the value of its result gives the
\* same member again.
C4_FromStringTotal ==
  /\ FromStringCalled =>
        /\ \E k \in 1..Len(EmotionMembers) : ret[1] = EmotionMembers[k]
        /\ \A k \in 1..Len(EmotionMembers) :
              /\ EmotionValues[k] = Lower(emotion) => ret[1] = EmotionMembers[k]
              /\ (\E m \in SUBSET (1..Len(EmotionValues[k])) :
                     emotion = ApplyCase(EmotionValues[k], m))
                    => ret[1] = EmotionMembers[k]
        /\ (\A k \in 1..Len(EmotionMembers) :
               EmotionValues[k] # Lower(emotion)) => ret[1] = "OTHER"
  /\ (op = "from_string" /\ pc = "done") => ret2 = ret

C4_Witness ==
  /\ op = "from_string" /\ pc = "done"
  /\ emotion = <<"H","A","P","p","y">>
  /\ ret = <<"HAPPY">>
  /\ ret2 = <<"HAPPY">>

EntityKeys == {"name", "type", "attributes", "position", "importance"}
SceneKeys == {"id", "text", "entities", "mood", "actions", "layout",
              "image_path"}

\* C5: when the provider does not fail, extract_entities returns one Entity
\* per entity span, with importance 1.5 for the labels PERSON and ORG and
\* 1.0 for any other label, and every importance is positive.
C5_Claim ==
  (op = "extract_entities" /\ pc = "done" /\ ~doc.raises) =>
     /\ outcome = "returned"
     /\ Len(ret[1]) = Len(doc.ents)
     /\ \A k \in 1..Len(doc.ents) :
           /\ ret[1][k][1] = doc.ents[k].text
           /\ ret[1][k][5] = (IF doc.ents[k].label_ \in {"PERSON", "ORG"}
                              THEN 15 ELSE 10)
           /\ ret[1][k][5] > 0

\* C6: to_dict gives exactly the key set of the wire contract, for an
\* Entity (name, type, attributes, position, importance) and for a Scene
\* (id, text, entities as the entities' mappings in order, mood as the
\* string value, actions, layout, image_path), with every field value
\* carried over unchanged.
C6_Claim ==
  /\ (op = "Entity.to_dict" /\ pc = "done") =>
        /\ DOMAIN ret[1] = EntityKeys
        /\ ret[1].name = obj[1]
        /\ ret[1].type = obj[2]
        /\ ret[1].attributes = obj[3]
        /\ ret[1].position = obj[4]
        /\ ret[1].importance = obj[5]
  /\ (op = "Scene.to_dict" /\ pc = "done") =>
        /\ DOMAIN ret[1] = SceneKeys
        /\ ret[1].id = obj[1]
        /\ ret[1].text = obj[2]
        /\ Len(ret[1].entities) = Len(obj[3])
        /\ \A k \in 1..Len(obj[3]) :
              /\ DOMAIN ret[1].entities[k] = EntityKeys
              /\ ret[1].entities[k].name = obj[3][k][1]
              /\ ret[1].entities[k].importance = obj[3][k][5]
        /\ ret[1].mood = EmotionValue(obj[4])
        /\ ret[1].actions = obj[5]
        /\ ret[1].layout = obj[6]
        /\ ret[1].image_path = obj[7]

StageOps == {"segment_scenes", "extract_entities", "detect_actions"}

\* C7: in each of the three stages a failure raised while the stage runs
\* leaves ProcessingError as the only outcome, with nothing returned (no
\* partial list, no default value), and a call in which nothing fails
\* returns and does not raise ProcessingError.
C7_FailureIsProcessingError ==
  (op \in StageOps /\ pc = "done") =>
     /\ outcome \in {"returned", "ProcessingError"}
     /\ (exc # "None") <=> (outcome = "ProcessingError")
     /\ doc.raises => (exc = "ProviderError" /\ outcome = "ProcessingError")
     /\ (outcome = "ProcessingError") => ret = None
     /\ (outcome = "returned") => Len(ret) = 1
     /\ (op = "segment_scenes" /\ ~doc.raises) => outcome = "returned"

C7_Witness ==
  /\ op = "segment_scenes" /\ pc = "done"
  /\ doc.raises /\ Len(doc.sents) = 2
  /\ outcome = "ProcessingError"
  /\ ret = None

IsVerbWithPhrase(t) == IsActionVerb(t) /\ t.phrase # <<>>
ExpectedActions ==
  LET picked == SelectSeq(doc.tokens, IsVerbWithPhrase)
  IN  [k \in 1..Len(picked) |-> picked[k].phrase]

\* C8: when the provider does not fail, detect_actions returns the phrase
\* of every token tagged as a verb with relation ROOT or xcomp whose phrase
\* is non-empty, in token order and with duplicates kept, and nothing for
\* any other token.
C8_Claim ==
  (op = "detect_actions" /\ pc = "done" /\ ~doc.raises) =>
     /\ outcome = "returned"
     /\ ret[1] = ExpectedActions

BuildFailed ==
  \/ segment_scenes(text, doc).exc # "None"
  \/ \E k \in 1..Len(tasks) :
        \/ tasks[k].entities.exc # "None"
        \/ tasks[k].actions.exc # "None"
        \/ tasks[k].mood.exc # "None"

====
